---- MODULE Spec2Model ----
(***************************************************************************)
(* Model of the `fund` JSON-RPC handler of the IPC agent                   *)
(* (src/server/handlers/manager/fund.rs) together with the two shared      *)
(* validation helpers check_subnet and parse_from                          *)
(* (src/server/handlers/manager/mod.rs).                                   *)
(*                                                                         *)
(* Text is modelled as a sequence of one-character strings, Option<T> as a *)
(* sequence of length 0 (None) or 1 (Some), and Result<T,E> as a record    *)
(* [ok, val, err].                                                         *)
(***************************************************************************)
EXTENDS Integers, Sequences, FiniteSets, TLC

\* ------------------------------------------------------------------------
\* Bounds of the model
\* ------------------------------------------------------------------------
\* Largest acceptance epoch the node may answer with.
MaxEpoch == 2
\* Largest actor id used for configured accounts.
MaxAccountId == 2

\* ------------------------------------------------------------------------
\* Option / Result encodings
\* ------------------------------------------------------------------------
None == <<>>
Some(x) == <<x>>
IsSome(o) == Len(o) = 1
Unwrap(o) == o[1]

\* Error messages produced by the handler and its helpers.
ErrNoParent == "no parent found"
ErrParentNotFound == "target parent subnet not found"
ErrInternal == "Internal server error"
\* Error messages produced by the conversions the handler calls.
ErrInvalidID == "invalid subnet id"
ErrInvalidLength == "Invalid address length"
ErrUnknownNetwork == "Unknown address network"
ErrUnknownProtocol == "Unknown address protocol"
ErrInvalidPayload == "Invalid address payload"
ErrInvalidAmount == "invalid amount"
ErrTransport == "transport error"

AddressErrors == {ErrInvalidLength, ErrUnknownNetwork, ErrUnknownProtocol, ErrInvalidPayload}
ClientInputErrors == AddressErrors \cup {ErrInvalidID, ErrInvalidAmount}

\* ------------------------------------------------------------------------
\* Text conversions
\* ------------------------------------------------------------------------
Digits == <<"0", "1", "2", "3", "4", "5", "6", "7", "8", "9">>
IsDigit(c) == \E i \in 1..10 : Digits[i] = c
DigitVal(c) == (CHOOSE i \in 1..10 : Digits[i] = c) - 1

RECURSIVE ParseDigits(_, _)
ParseDigits(s, acc) ==
    IF s = <<>> THEN acc ELSE ParseDigits(Tail(s), acc * 10 + DigitVal(Head(s)))

\* str::parse::<u64>: a non-empty run of decimal digits, leading zeros allowed.
ParseU64(s) ==
    IF s # <<>> /\ \A i \in 1..Len(s) : IsDigit(s[i])
    THEN [ok |-> TRUE, val |-> ParseDigits(s, 0), err |-> ""]
    ELSE [ok |-> FALSE, val |-> 0, err |-> ErrInvalidPayload]

\* str::split('/'): the segments between the separators, empty ones included.
RECURSIVE Split(_, _)
Split(s, cur) ==
    IF s = <<>> THEN <<cur>>
    ELSE IF Head(s) = "/" THEN <<cur>> \o Split(Tail(s), <<>>)
    ELSE Split(Tail(s), Append(cur, Head(s)))

\* Address::from_str for id addresses on the test network ("t0<id>").
AddressFromStr(s) ==
    IF Len(s) < 3 THEN [ok |-> FALSE, val |-> 0, err |-> ErrInvalidLength]
    ELSE IF s[1] # "t" THEN [ok |-> FALSE, val |-> 0, err |-> ErrUnknownNetwork]
    ELSE IF s[2] # "0" THEN [ok |-> FALSE, val |-> 0, err |-> ErrUnknownProtocol]
    ELSE ParseU64(SubSeq(s, 3, Len(s)))

NoSubnetID == [root |-> 0, children |-> <<>>]

RECURSIVE ParseChildren(_)
ParseChildren(segs) ==
    IF segs = <<>> THEN [ok |-> TRUE, val |-> <<>>, err |-> ""]
    ELSE LET a == AddressFromStr(Head(segs))
             rest == ParseChildren(Tail(segs))
         IN  IF ~a.ok THEN [ok |-> FALSE, val |-> <<>>, err |-> ErrInvalidID]
             ELSE IF ~rest.ok THEN rest
             ELSE [ok |-> TRUE, val |-> <<a.val>> \o rest.val, err |-> ""]

\* SubnetID::from_str: "/r<root>" followed by "/<address>" per child.
SubnetIDFromStr(s) ==
    IF Len(s) < 2 \/ s[1] # "/" \/ s[2] # "r"
    THEN [ok |-> FALSE, val |-> NoSubnetID, err |-> ErrInvalidID]
    ELSE LET segs == Tail(Split(s, <<>>))
             root == ParseU64(Tail(segs[1]))
             kids == ParseChildren(Tail(segs))
         IN  IF ~root.ok \/ ~kids.ok
             THEN [ok |-> FALSE, val |-> NoSubnetID, err |-> ErrInvalidID]
             ELSE [ok |-> TRUE, val |-> [root |-> root.val, children |-> kids.val], err |-> ""]

\* SubnetID::parent: none at the root, else the identifier without its last child.
SubnetParent(id) ==
    IF id.children = <<>> THEN None
    ELSE Some([root |-> id.root, children |-> SubSeq(id.children, 1, Len(id.children) - 1)])

\* A decimal amount is mant * 10^(-exp) whole FIL.
NanoDigits == 9
RECURSIVE Pow10(_)
Pow10(n) == IF n = 0 THEN 1 ELSE 10 * Pow10(n - 1)

\* handlers::f64_to_token_amount: the amount in nano FIL, or an error when the
\* value has no exact representation in that unit.
f64_to_token_amount(a) ==
    IF a.exp <= NanoDigits
    THEN [ok |-> TRUE, val |-> a.mant * Pow10(NanoDigits - a.exp), err |-> ""]
    ELSE IF a.mant % Pow10(a.exp - NanoDigits) = 0
         THEN [ok |-> TRUE, val |-> a.mant \div Pow10(a.exp - NanoDigits), err |-> ""]
    ELSE [ok |-> FALSE, val |-> 0, err |-> ErrInvalidAmount]

\* ------------------------------------------------------------------------
\* Inputs
\* ------------------------------------------------------------------------
RootText == <<"/", "r", "3", "1", "4", "1", "5", "9">>
ChildText == RootText \o <<"/", "t", "0", "1">>
\* Same identifier as ChildText, written with a leading zero.
ChildTextAlt == RootText \o <<"/", "t", "0", "0", "1">>
GrandChildText == ChildText \o <<"/", "t", "0", "2">>
BadPrefixText == <<"r", "3", "1", "4", "1", "5", "9">>
BadChildText == RootText \o <<"/", "x", "0", "1">>

SubnetTexts == {RootText, ChildText, ChildTextAlt, GrandChildText, BadPrefixText, BadChildText}

RootID == [root |-> 314159, children |-> <<>>]
ChildID == [root |-> 314159, children |-> <<1>>]
GrandChildID == [root |-> 314159, children |-> <<1, 2>>]

FromTexts == {None, Some(<<"t", "0", "2">>), Some(<<"x", "0", "2">>)}
ToTexts == {None, Some(<<"t", "0", "1">>), Some(<<"t", "0">>)}

OnePointFive == [mant |-> 15, exp |-> 1]
TenthOfNano == [mant |-> 1, exp |-> 10]
Amounts == {OnePointFive, TenthOfNano}

FundParams == [subnet : SubnetTexts, from : FromTexts, to : ToTexts, amount : Amounts]
NoRequest == [subnet |-> <<>>, from |-> None, to |-> None, amount |-> [mant |-> 0, exp |-> 0]]

\* Subnet configurations (config::Subnet): the Fvm variant carries an optional
\* auth token, the Fevm variant has none.
AccountLists == {<<>>, [i \in 1..MaxAccountId |-> i]}
\* Gateway addresses as the configuration template writes them per network type.
FvmGateway == "t064"
FevmGateway == "0x5fBdA31a37E05D8cceF146f7704f4fCe33e2F96F"
SubnetConfigs(id) ==
    [id : {id}, kind : {"Fvm"}, auth_token : {None, Some("token")},
     accounts : AccountLists, gateway_addr : {FvmGateway}]
    \cup
    [id : {id}, kind : {"Fevm"}, auth_token : {None},
     accounts : AccountLists, gateway_addr : {FevmGateway}]

\* Identifiers a configuration may name.
ConfiguredIDs == {RootID, ChildID}

\* Every mapping a configuration can load into the pool.
Pools ==
    UNION { { p \in [ids -> UNION {SubnetConfigs(id) : id \in ids}] :
                \A id \in ids : p[id].id = id } : ids \in SUBSET ConfiguredIDs }

Ok(v) == [tag |-> "Ok", epoch |-> v, msg |-> ""]
Err(m) == [tag |-> "Err", epoch |-> 0, msg |-> m]
NoResult == [tag |-> "None", epoch |-> 0, msg |-> ""]

\* ------------------------------------------------------------------------
\* State
\* ------------------------------------------------------------------------
VARIABLES
    pool,         \* SubnetManagerPool: SubnetID -> connection (its Subnet config)
    pc,           \* position of the handler
    request,      \* the FundParams being handled
    subnet,       \* local `subnet`
    parent,       \* local `parent`
    conn,         \* local `conn` (Option: the entry returned by pool.get)
    from,         \* local `from` (Option<Address>)
    to,           \* local `to` (Option<Address>)
    amount,       \* local `amount` (Option<TokenAmount>, nano FIL)
    poolLookups,  \* number of pool.get calls made for this request
    calls,        \* manager().fund invocations made for this request
    fundResult,   \* what the manager().fund invocation yielded
    result        \* what handle returned

vars == <<pool, pc, request, subnet, parent, conn, from, to, amount,
          poolLookups, calls, fundResult, result>>

Init ==
    /\ pool \in Pools
    /\ pc = "idle"
    /\ request = NoRequest
    /\ subnet = NoSubnetID
    /\ parent = NoSubnetID
    /\ conn = None
    /\ from = None
    /\ to = None
    /\ amount = None
    /\ poolLookups = 0
    /\ calls = <<>>
    /\ fundResult = NoResult
    /\ result = NoResult

\* ------------------------------------------------------------------------
\* Helpers of server/handlers/manager/mod.rs
\* ------------------------------------------------------------------------
\* Variant of check_subnet that names the missing secret in its error.
check_subnet_leaky(s) ==
    IF s.kind = "Fvm" /\ s.auth_token = None
    THEN [ok |-> FALSE, err |-> "subnet does not have auth token"]
    ELSE [ok |-> TRUE, err |-> ""]

check_subnet(s) ==
    IF s.kind = "Fvm" /\ s.auth_token = None
    THEN [ok |-> FALSE, err |-> ErrInternal]
    ELSE [ok |-> TRUE, err |-> ""]

\* Variant of parse_from that defaults to the last configured account.
parse_from_last(s, f) ==
    IF IsSome(f) THEN AddressFromStr(Unwrap(f))
    ELSE IF s.accounts = <<>> THEN [ok |-> FALSE, val |-> 0, err |-> ErrInternal]
    ELSE [ok |-> TRUE, val |-> s.accounts[Len(s.accounts)], err |-> ""]

parse_from(s, f) ==
    IF IsSome(f) THEN AddressFromStr(Unwrap(f))
    ELSE IF s.accounts = <<>> THEN [ok |-> FALSE, val |-> 0, err |-> ErrInternal]
    ELSE [ok |-> TRUE, val |-> s.accounts[1], err |-> ""]

\* SubnetManagerPool::get
PoolGet(p, id) == IF id \in DOMAIN p THEN Some(p[id]) ELSE None

\* ------------------------------------------------------------------------
\* FundHandler::handle, one action per statement
\* ------------------------------------------------------------------------
\* Early return of handle with an error.
Fail(m) ==
    /\ pc' = "done"
    /\ result' = Err(m)

\* A request is dispatched to the handler.
Receive(req) ==
    /\ pc = "idle"
    /\ pc' = "parse_subnet"
    /\ request' = req
    /\ subnet' = NoSubnetID
    /\ parent' = NoSubnetID
    /\ conn' = None
    /\ from' = None
    /\ to' = None
    /\ amount' = None
    /\ poolLookups' = 0
    /\ calls' = <<>>
    /\ fundResult' = NoResult
    /\ result' = NoResult
    /\ UNCHANGED pool

\* let subnet = SubnetID::from_str(&request.subnet)?;
ParseSubnet ==
    /\ pc = "parse_subnet"
    /\ LET r == SubnetIDFromStr(request.subnet)
       IN  IF r.ok
           THEN /\ subnet' = r.val
                /\ pc' = "resolve_parent"
                /\ UNCHANGED result
           ELSE /\ Fail(r.err)
                /\ UNCHANGED subnet
    /\ UNCHANGED <<pool, request, parent, conn, from, to, amount, poolLookups, calls, fundResult>>

\* Variant of ResolveParent that treats the root as its own parent.
ResolveParent_SelfAtRoot ==
    /\ pc = "resolve_parent"
    /\ LET p == SubnetParent(subnet)
       IN  parent' = IF IsSome(p) THEN Unwrap(p) ELSE subnet
    /\ pc' = "pool_get"
    /\ UNCHANGED <<pool, request, subnet, conn, from, to, amount, poolLookups, calls, fundResult, result>>

\* let parent = subnet.parent().ok_or_else(|| anyhow!("no parent found"))?;
ResolveParent ==
    /\ pc = "resolve_parent"
    /\ LET p == SubnetParent(subnet)
       IN  IF IsSome(p)
           THEN /\ parent' = Unwrap(p)
                /\ pc' = "pool_get"
                /\ UNCHANGED result
           ELSE /\ Fail(ErrNoParent)
                /\ UNCHANGED parent
    /\ UNCHANGED <<pool, request, subnet, conn, from, to, amount, poolLookups, calls, fundResult>>

\* Variant of GetConn that looks the target up instead of its parent.
GetConn_Target ==
    /\ pc = "pool_get"
    /\ poolLookups' = poolLookups + 1
    /\ LET c == PoolGet(pool, subnet)
       IN  IF IsSome(c)
           THEN /\ conn' = c
                /\ pc' = "check_subnet"
                /\ UNCHANGED result
           ELSE /\ Fail(ErrParentNotFound)
                /\ UNCHANGED conn
    /\ UNCHANGED <<pool, request, subnet, parent, from, to, amount, calls, fundResult>>

\* let conn = match self.pool.get(&parent) { None => return Err(..), Some(conn) => conn };
GetConn ==
    /\ pc = "pool_get"
    /\ poolLookups' = poolLookups + 1
    /\ LET c == PoolGet(pool, parent)
       IN  IF IsSome(c)
           THEN /\ conn' = c
                /\ pc' = "check_subnet"
                /\ UNCHANGED result
           ELSE /\ Fail(ErrParentNotFound)
                /\ UNCHANGED conn
    /\ UNCHANGED <<pool, request, subnet, parent, from, to, amount, calls, fundResult>>

\* Variant of CheckSubnet that validates a freshly looked-up entry.
CheckSubnet_Reread ==
    /\ pc = "check_subnet"
    /\ poolLookups' = poolLookups + 1
    /\ LET c == PoolGet(pool, parent)
           r == check_subnet(IF IsSome(c) THEN Unwrap(c) ELSE Unwrap(conn))
       IN  IF r.ok
           THEN /\ pc' = "parse_from"
                /\ UNCHANGED result
           ELSE Fail(r.err)
    /\ UNCHANGED <<pool, request, subnet, parent, conn, from, to, amount, calls, fundResult>>

\* let subnet_config = conn.subnet(); check_subnet(subnet_config)?;
CheckSubnet ==
    /\ pc = "check_subnet"
    /\ LET r == check_subnet(Unwrap(conn))
       IN  IF r.ok
           THEN /\ pc' = "parse_from"
                /\ UNCHANGED result
           ELSE Fail(r.err)
    /\ UNCHANGED <<pool, request, subnet, parent, conn, from, to, amount, poolLookups, calls, fundResult>>

\* Variant of ParseFrom that converts the amount before resolving the sender.
ParseFrom_AmountFirst ==
    /\ pc = "parse_from"
    /\ LET a == f64_to_token_amount(request.amount)
           r == parse_from(Unwrap(conn), request.from)
       IN  IF ~a.ok
           THEN /\ Fail(a.err)
                /\ UNCHANGED from
           ELSE IF r.ok
           THEN /\ from' = Some(r.val)
                /\ pc' = "parse_to"
                /\ UNCHANGED result
           ELSE /\ Fail(r.err)
                /\ UNCHANGED from
    /\ UNCHANGED <<pool, request, subnet, parent, conn, to, amount, poolLookups, calls, fundResult>>

\* let from = parse_from(subnet_config, request.from)?;
ParseFrom ==
    /\ pc = "parse_from"
    /\ LET r == parse_from(Unwrap(conn), request.from)
       IN  IF r.ok
           THEN /\ from' = Some(r.val)
                /\ pc' = "parse_to"
                /\ UNCHANGED result
           ELSE /\ Fail(r.err)
                /\ UNCHANGED from
    /\ UNCHANGED <<pool, request, subnet, parent, conn, to, amount, poolLookups, calls, fundResult>>

\* Variant of ParseTo whose default recipient is the first configured account.
ParseTo_DefaultAccount ==
    /\ pc = "parse_to"
    /\ IF IsSome(request.to)
       THEN LET r == AddressFromStr(Unwrap(request.to))
            IN  IF r.ok
                THEN /\ to' = Some(r.val)
                     /\ pc' = "convert_amount"
                     /\ UNCHANGED result
                ELSE /\ Fail(r.err)
                     /\ UNCHANGED to
       ELSE /\ to' = IF Unwrap(conn).accounts = <<>> THEN from
                     ELSE Some(Unwrap(conn).accounts[1])
            /\ pc' = "convert_amount"
            /\ UNCHANGED result
    /\ UNCHANGED <<pool, request, subnet, parent, conn, from, amount, poolLookups, calls, fundResult>>

\* let to = request.to.map(|r| Address::from_str(&r)).transpose()?.unwrap_or(from);
ParseTo ==
    /\ pc = "parse_to"
    /\ IF IsSome(request.to)
       THEN LET r == AddressFromStr(Unwrap(request.to))
            IN  IF r.ok
                THEN /\ to' = Some(r.val)
                     /\ pc' = "convert_amount"
                     /\ UNCHANGED result
                ELSE /\ Fail(r.err)
                     /\ UNCHANGED to
       ELSE /\ to' = from
            /\ pc' = "convert_amount"
            /\ UNCHANGED result
    /\ UNCHANGED <<pool, request, subnet, parent, conn, from, amount, poolLookups, calls, fundResult>>

\* Variant of ConvertAmount that falls back to the converted value of a failed
\* conversion instead of returning its error.
ConvertAmount_Unchecked ==
    /\ pc = "convert_amount"
    /\ amount' = Some(f64_to_token_amount(request.amount).val)
    /\ pc' = "call_fund"
    /\ UNCHANGED <<pool, request, subnet, parent, conn, from, to, poolLookups, calls, fundResult, result>>

\* let amount = handlers::f64_to_token_amount(request.amount)?;
ConvertAmount ==
    /\ pc = "convert_amount"
    /\ LET r == f64_to_token_amount(request.amount)
       IN  IF r.ok
           THEN /\ amount' = Some(r.val)
                /\ pc' = "call_fund"
                /\ UNCHANGED result
           ELSE /\ Fail(r.err)
                /\ UNCHANGED amount
    /\ UNCHANGED <<pool, request, subnet, parent, conn, from, to, poolLookups, calls, fundResult>>

\* Variant of CallFund that passes the gateway address of the target's own entry.
CallFund_TargetGateway ==
    /\ pc = "call_fund"
    /\ calls' = Append(calls, [conn |-> Unwrap(conn),
                               subnet |-> subnet,
                               gateway_addr |-> IF subnet \in DOMAIN pool
                                                THEN pool[subnet].gateway_addr
                                                ELSE Unwrap(conn).gateway_addr,
                               from |-> Unwrap(from),
                               to |-> Unwrap(to),
                               amount |-> Unwrap(amount)])
    /\ pc' = "await_fund"
    /\ UNCHANGED <<pool, request, subnet, parent, conn, from, to, amount, poolLookups, fundResult, result>>

\* conn.manager().fund(subnet, subnet_config.gateway_addr(), from, to, amount)
CallFund ==
    /\ pc = "call_fund"
    /\ calls' = Append(calls, [conn |-> Unwrap(conn),
                               subnet |-> subnet,
                               gateway_addr |-> Unwrap(conn).gateway_addr,
                               from |-> Unwrap(from),
                               to |-> Unwrap(to),
                               amount |-> Unwrap(amount)])
    /\ pc' = "await_fund"
    /\ UNCHANGED <<pool, request, subnet, parent, conn, from, to, amount, poolLookups, fundResult, result>>

\* Outcomes of the manager's fund: an acceptance epoch or a node/transport error.
FundOutcomes == {Ok(e) : e \in 1..MaxEpoch} \cup {Err(ErrTransport)}

\* Variant of AwaitFund that submits again after a failed submission.
AwaitFund_Retry(r) ==
    /\ pc = "await_fund"
    /\ fundResult' = r
    /\ IF r.tag = "Err" /\ Len(calls) < 2
       THEN pc' = "call_fund" /\ UNCHANGED result
       ELSE pc' = "done" /\ result' = r
    /\ UNCHANGED <<pool, request, subnet, parent, conn, from, to, amount, poolLookups, calls>>

\* .await: the future resolves and its value is the handler's return value.
AwaitFund(r) ==
    /\ pc = "await_fund"
    /\ fundResult' = r
    /\ result' = r
    /\ pc' = "done"
    /\ UNCHANGED <<pool, request, subnet, parent, conn, from, to, amount, poolLookups, calls>>

\* The response is handed back and the handler is free for the next request.
Respond ==
    /\ pc = "done"
    /\ pc' = "idle"
    /\ UNCHANGED <<pool, request, subnet, parent, conn, from, to, amount, poolLookups, calls, fundResult, result>>

\* A configuration reload replaces the pool's mapping.
Reload(p) ==
    /\ p # pool
    /\ pool' = p
    /\ UNCHANGED <<pc, request, subnet, parent, conn, from, to, amount, poolLookups, calls, fundResult, result>>

Next ==
    \/ \E req \in FundParams : Receive(req)
    \/ ParseSubnet
    \/ ResolveParent
    \/ GetConn
    \/ CheckSubnet
    \/ ParseFrom
    \/ ParseTo
    \/ ConvertAmount
    \/ CallFund
    \/ \E r \in FundOutcomes : AwaitFund(r)
    \/ Respond
    \/ \E p \in Pools : Reload(p)

Spec == Init /\ [][Next]_vars

\* ------------------------------------------------------------------------
\* Properties
\* ------------------------------------------------------------------------
Target == SubnetIDFromStr(request.subnet)
Finished == pc = "done"
FromIsBad == IsSome(request.from) /\ ~AddressFromStr(Unwrap(request.from)).ok
ToIsBad == IsSome(request.to) /\ ~AddressFromStr(Unwrap(request.to)).ok
AmountIsBad == ~f64_to_token_amount(request.amount).ok

\* C1: a request whose target identifier parses but has no parent never gets
\* past the parent resolution: the pool is not consulted, the manager is not
\* called, and the handler returns the no-parent error, whatever from, to and
\* amount are.
C1_RootFailsBeforeAnyCall ==
    (Target.ok /\ SubnetParent(Target.val) = None) =>
        /\ poolLookups = 0
        /\ calls = <<>>
        /\ conn = None
        /\ pc \in {"parse_subnet", "resolve_parent", "done", "idle"}
        /\ pc \in {"done", "idle"} => result = Err(ErrNoParent)

C1_Witness ==
    /\ Finished
    /\ request.subnet = RootText
    /\ IsSome(request.from)
    /\ RootID \in DOMAIN pool
    /\ result = Err(ErrNoParent)

\* C2 (as stated): fund(subnet="/r314159", from absent, to absent, 1.5) on a
\* subnet whose first configured account is A makes exactly one submission
\* A -> A of 1.5 and returns what that submission yields.
C2_Original ==
    ( /\ Finished
      /\ request = [subnet |-> RootText, from |-> None, to |-> None, amount |-> OnePointFive]
      /\ RootID \in DOMAIN pool
      /\ check_subnet(pool[RootID]).ok
      /\ pool[RootID].accounts # <<>> ) =>
        /\ Len(calls) = 1
        /\ calls[1].from = pool[RootID].accounts[1]
        /\ calls[1].to = pool[RootID].accounts[1]
        /\ result = fundResult

\* C2 (amended): the scenario holds for a child of /r314159: with from and to
\* absent and amount 1.5, when the parent entry the handler resolved is ready
\* and has first account A, exactly one submission A -> A of 1.5 FIL
\* (1500000000 nano) is made on that entry and the handler returns what the
\* submission yields; for "/r314159" itself nothing is submitted and the
\* no-parent error is returned.
C2_ChildScenario ==
    /\ ( /\ Finished
         /\ request.subnet \in {ChildText, ChildTextAlt}
         /\ request.from = None /\ request.to = None /\ request.amount = OnePointFive
         /\ IsSome(conn)
         /\ check_subnet(Unwrap(conn)).ok
         /\ Unwrap(conn).accounts # <<>> ) =>
            /\ Len(calls) = 1
            /\ calls[1].subnet = ChildID
            /\ calls[1].conn.id = RootID
            /\ calls[1].from = Unwrap(conn).accounts[1]
            /\ calls[1].to = Unwrap(conn).accounts[1]
            /\ calls[1].amount = 1500000000
            /\ fundResult \in FundOutcomes
            /\ result = fundResult
    /\ ( /\ Finished
         /\ request = [subnet |-> RootText, from |-> None, to |-> None, amount |-> OnePointFive] ) =>
            /\ calls = <<>>
            /\ result = Err(ErrNoParent)

C2_Witness ==
    /\ Finished
    /\ request = [subnet |-> ChildText, from |-> None, to |-> None, amount |-> OnePointFive]
    /\ Len(calls) = 1
    /\ calls[1].from = 1 /\ calls[1].to = 1
    /\ Len(Unwrap(conn).accounts) > 1
    /\ result.tag = "Ok"

\* C3: in every submission the sender is the parsed explicit `from` when one is
\* given (whatever the configured accounts are), otherwise the first account of
\* the resolved entry; the recipient is the parsed explicit `to` when one is
\* given, otherwise the sender.
C3_SenderRecipientDefaults ==
    Len(calls) >= 1 =>
        /\ calls[1].from = IF IsSome(request.from)
                           THEN AddressFromStr(Unwrap(request.from)).val
                           ELSE Unwrap(conn).accounts[1]
        /\ IsSome(request.from) => AddressFromStr(Unwrap(request.from)).ok
        /\ request.from = None => Unwrap(conn).accounts # <<>>
        /\ calls[1].to = IF IsSome(request.to)
                         THEN AddressFromStr(Unwrap(request.to)).val
                         ELSE calls[1].from
        /\ IsSome(request.to) => AddressFromStr(Unwrap(request.to)).ok

C3_Witness ==
    /\ Len(calls) = 1
    /\ IsSome(request.from)
    /\ request.to = None
    /\ Unwrap(conn).accounts = <<>>
    /\ calls[1].from = 2 /\ calls[1].to = 2

\* C4: a native-chain entry without auth token, and an absent `from` on an
\* entry without accounts, both end the request with the same generic internal
\* error and without a submission; an EVM-compatible entry always passes the
\* readiness check, so its only internal error is the missing account.
C4_ConfigurationFailuresAreGeneric ==
    /\ ( /\ Finished /\ IsSome(conn)
         /\ Unwrap(conn).kind = "Fvm" /\ Unwrap(conn).auth_token = None ) =>
            (result = Err(ErrInternal) /\ calls = <<>>)
    /\ ( /\ Finished /\ IsSome(conn)
         /\ request.from = None /\ Unwrap(conn).accounts = <<>> ) =>
            (result = Err(ErrInternal) /\ calls = <<>>)
    /\ (IsSome(conn) /\ Unwrap(conn).kind = "Fevm") =>
            /\ check_subnet(Unwrap(conn)).ok
            /\ (Finished /\ result = Err(ErrInternal)) =>
                    (request.from = None /\ Unwrap(conn).accounts = <<>>)

C4_Witness ==
    /\ Finished
    /\ IsSome(conn)
    /\ Unwrap(conn).kind = "Fevm"
    /\ request.from = None
    /\ Unwrap(conn).accounts = <<>>
    /\ result = Err(ErrInternal)
    /\ calls = <<>>

\* C5 (as stated): when the pool has no entry for the target identifier of the
\* request, the handler fails with the unknown-subnet error and makes no
\* manager call.
C5_Original ==
    (Finished /\ Target.ok /\ Target.val \notin DOMAIN pool) =>
        (result = Err(ErrParentNotFound) /\ calls = <<>>)

\* C5 (amended): the lookup is made for the parent of the target. When the pool
\* has no entry for the parent, the handler returns "target parent subnet not
\* found" and makes no manager call; when it has one the handler goes on to the
\* readiness check, whether or not the target itself has an entry.
C5_ParentLookupDecides ==
    [][ (pc = "pool_get" /\ pc' # "pool_get") =>
            IF parent \in DOMAIN pool
            THEN pc' = "check_subnet" /\ conn' = Some(pool[parent])
            ELSE pc' = "done" /\ result' = Err(ErrParentNotFound) /\ calls' = <<>> ]_vars

C5_Witness ==
    /\ Finished
    /\ result = Err(ErrParentNotFound)
    /\ calls = <<>>
    /\ poolLookups = 1
    /\ subnet \in DOMAIN pool
    /\ parent \notin DOMAIN pool

\* C6: a submission is made on the entry of the target's parent: the entry is
\* the one keyed by subnet.parent(), it passed the readiness check, the default
\* sender comes from it, the gateway address passed is that entry's, and the
\* subnet passed is the target of the request; a failed parent lookup ends the
\* request without a submission.
C6_FundRunsAgainstParent ==
    /\ IsSome(conn) =>
            /\ SubnetParent(subnet) = Some(parent)
            /\ Unwrap(conn).id = parent
    /\ Len(calls) >= 1 =>
            /\ calls[1].conn = Unwrap(conn)
            /\ calls[1].gateway_addr = Unwrap(conn).gateway_addr
            /\ calls[1].subnet = Target.val
            /\ calls[1].subnet # calls[1].conn.id
            /\ check_subnet(Unwrap(conn)).ok
            /\ request.from = None => calls[1].from = Unwrap(conn).accounts[1]
    /\ (Finished /\ poolLookups = 1 /\ conn = None) =>
            (calls = <<>> /\ result = Err(ErrParentNotFound))

C6_Witness ==
    /\ Len(calls) = 1
    /\ subnet = ChildID
    /\ ChildID \in DOMAIN pool
    /\ pool[ChildID].gateway_addr # calls[1].gateway_addr
    /\ RootID \in DOMAIN pool
    /\ pool[RootID] = Unwrap(conn)

\* C7 (as stated): on an entry that passes the readiness check, an unparseable
\* `from`, `to` or amount ends the request with a client-input conversion
\* error, distinct from the generic internal error, and without a submission.
C7_Original ==
    ( /\ Finished /\ IsSome(conn) /\ check_subnet(Unwrap(conn)).ok
      /\ (FromIsBad \/ ToIsBad \/ AmountIsBad) ) =>
        /\ calls = <<>>
        /\ result.tag = "Err"
        /\ result.msg \in ClientInputErrors
        /\ result.msg # ErrInternal

\* C7 (amended): the same, provided the sender resolves (an explicit `from` is
\* given or the entry has an account); when `from` is absent and the entry has
\* no account, the generic internal error is returned even if `to` or the
\* amount is unparseable, still without a submission.
C7_ConversionErrorsAreClientInput ==
    ( /\ Finished /\ IsSome(conn) /\ check_subnet(Unwrap(conn)).ok
      /\ (FromIsBad \/ ToIsBad \/ AmountIsBad) ) =>
        /\ calls = <<>>
        /\ result.tag = "Err"
        /\ IF request.from = None /\ Unwrap(conn).accounts = <<>>
           THEN result.msg = ErrInternal
           ELSE result.msg \in ClientInputErrors /\ result.msg # ErrInternal

C7_Witness ==
    /\ Finished
    /\ IsSome(conn)
    /\ check_subnet(Unwrap(conn)).ok
    /\ IsSome(from)
    /\ ~FromIsBad /\ ~ToIsBad /\ AmountIsBad
    /\ result = Err(ErrInvalidAmount)
    /\ calls = <<>>

\* Every validation step of the request succeeds on the entry it resolved.
AllStepsPass ==
    /\ Target.ok
    /\ IsSome(SubnetParent(Target.val))
    /\ IsSome(conn)
    /\ check_subnet(Unwrap(conn)).ok
    /\ parse_from(Unwrap(conn), request.from).ok
    /\ ~ToIsBad
    /\ ~AmountIsBad

\* C8: a request makes at most one submission: one when every validation step
\* passes, none otherwise; what the submission yields, an epoch or an error, is
\* what the handler returns, and a failed submission is not repeated.
C8_AtMostOneSubmission ==
    /\ Len(calls) <= 1
    /\ Finished =>
            /\ Len(calls) = 1 <=> AllStepsPass
            /\ Len(calls) = 1 => (fundResult \in FundOutcomes /\ result = fundResult)
            /\ calls = <<>> => (fundResult = NoResult /\ result.tag = "Err")

C8_Witness ==
    /\ Finished
    /\ Len(calls) = 1
    /\ fundResult = Err(ErrTransport)
    /\ result = Err(ErrTransport)

\* The error of the first failing step, in the order: parse identifier, resolve
\* parent, pool lookup, readiness check, from, to, amount, submission.
FirstFailure ==
    IF ~Target.ok THEN Err(Target.err)
    ELSE IF SubnetParent(Target.val) = None THEN Err(ErrNoParent)
    ELSE IF conn = None THEN Err(ErrParentNotFound)
    ELSE IF ~check_subnet(Unwrap(conn)).ok THEN Err(ErrInternal)
    ELSE IF ~parse_from(Unwrap(conn), request.from).ok
         THEN Err(parse_from(Unwrap(conn), request.from).err)
    ELSE IF ToIsBad THEN Err(AddressFromStr(Unwrap(request.to)).err)
    ELSE IF AmountIsBad THEN Err(ErrInvalidAmount)
    ELSE fundResult

\* C9: the handler returns the error of the first failing step in the fixed
\* order of its checks; a missing auth token wins over a malformed from, to or
\* amount, and a malformed from wins over a malformed amount.
C9_FirstFailingStepWins ==
    Finished =>
        /\ result = FirstFailure
        /\ ( /\ IsSome(conn) /\ ~check_subnet(Unwrap(conn)).ok
             /\ (FromIsBad \/ ToIsBad \/ AmountIsBad) ) => result = Err(ErrInternal)
        /\ ( /\ IsSome(conn) /\ check_subnet(Unwrap(conn)).ok
             /\ FromIsBad /\ AmountIsBad ) =>
                result = Err(AddressFromStr(Unwrap(request.from)).err)

C9_Witness ==
    /\ Finished
    /\ IsSome(conn)
    /\ check_subnet(Unwrap(conn)).ok
    /\ FromIsBad /\ ToIsBad /\ AmountIsBad
    /\ result = Err(ErrUnknownNetwork)

\* C10: a request looks the pool up at most once, exactly once when it gets
\* past the lookup; the entry it obtained stays the one it uses until it
\* returns, whatever reloads do to the pool meanwhile, and the submission is
\* made on that entry with that entry's gateway address and default account.
C10_ResolvedEntryIsKept ==
    /\ [](poolLookups <= 1)
    /\ []((pc \in {"check_subnet", "parse_from", "parse_to", "convert_amount",
                   "call_fund", "await_fund"}) => (poolLookups = 1 /\ IsSome(conn)))
    /\ [](Len(calls) >= 1 =>
            /\ calls[1].conn = Unwrap(conn)
            /\ calls[1].gateway_addr = Unwrap(conn).gateway_addr
            /\ check_subnet(Unwrap(conn)).ok
            /\ request.from = None => calls[1].from = Unwrap(conn).accounts[1])
    /\ [][(pc # "idle" /\ IsSome(conn)) => conn' = conn]_vars

C10_Witness ==
    /\ pc = "await_fund"
    /\ Len(calls) = 1
    /\ request.from = None
    /\ parent \in DOMAIN pool
    /\ ~check_subnet(pool[parent]).ok
    /\ pool[parent].accounts = <<>>
    /\ pool[parent].gateway_addr # calls[1].gateway_addr
====
